---- MODULE Spec2Model ----
(***************************************************************************)
(* A model of the three constant-generation scripts of the VDF FPGA        *)
(* round 1 results:                                                        *)
(*   gen_reduction_lut.py     the reduction lookup-table generator         *)
(*   vdf_metzgen_modterms.py  the adder-term generator with an operand x   *)
(*   vdf_metzgen_modtest.py   the adder-term constants and bigmodR         *)
(* One run executes one script (prog); the other scripts' variables stay   *)
(* at their initial values.                                                *)
(*                                                                         *)
(* Python integers are unbounded.  Values that stay small are TLA+         *)
(* integers; values that grow with the geometry (ALLSIGNBITS, the operand  *)
(* x, M << k, the running sum) are held exactly as the set of their set    *)
(* bit positions (a "big" natural), with exact shift, add and subtract.    *)
(***************************************************************************)
EXTENDS Integers, Sequences, FiniteSets, TLC

\* ------------------------------------------------------------------ bounds
MaxM == 17
MaxWordLen == 4
MaxNonRedundant == 2
MaxLogNumSymbols == 1
MaxLogRadix == 2
MaxModulus == 3
MaxStride == 1
MaxOperand == 20
MaxExponent == 20

\* ------------------------------------------------- gen_reduction_lut.py
\* program constants
LUT_NUM_ELEMENTS == 33
LutOffset == 8
NUM_SEGMENTS == 1

\* prog      the script that runs, pc its position
\* it        the position of the for statement's range; i is the variable the
\*           loop body also increments and decrements
\* f         the name of the open file, files the lines each file holds (each
\*           line with the address j it was written for), opened the names
\*           passed to open(), in order
\* ti        the loop variable i of the adder-term scripts
\* trace     the sub-positions <<i, j, iter+j, SYM, BIT>> that passed the test
\*           SYM < (2 << LOGNUMSYMBOLS), in order
\* printed   the value of the final print of the sum modulo MODULUS
\* xarg, m   the arguments _x and m of bigmodR; x, term and twopowerimodm are
\*           its locals, iterations counts the passes of its loop, result is
\*           the value returned
VARIABLES prog, pc,
          M, WORD_LEN, NONREDUNDANT_ELEMENTS,
          it, i, t_lut8, t_lut9, f, files, opened,
          LOGNUMSYMBOLS, LOGRADIX, MODULUS, x,
          ALLSIGNBITS, adderterms0, adderterms2, sumofadderterms,
          ti, term, trace, printed,
          m, xarg, twopowerimodm, iterations, result

lutVars == <<M, WORD_LEN, NONREDUNDANT_ELEMENTS, it, i, t_lut8, t_lut9, f, files, opened>>
geomVars == <<LOGNUMSYMBOLS, LOGRADIX, MODULUS, x>>
termVars == <<geomVars, ALLSIGNBITS, adderterms0, adderterms2, sumofadderterms,
              ti, term, trace, printed>>
termOnlyVars == <<LOGNUMSYMBOLS, LOGRADIX, MODULUS, ALLSIGNBITS, adderterms0, adderterms2,
                  sumofadderterms, ti, trace, printed>>
bmVars == <<m, xarg, twopowerimodm, iterations, result>>
vars == <<prog, pc, lutVars, termVars, bmVars>>

\* ---------------------------------------------------------------- helpers
RECURSIVE Pow2(_)
Pow2(e) == IF e = 0 THEN 1 ELSE 2 * Pow2(e - 1)

\* (2**e) % m for m > 0.  2**e itself does not fit a machine integer for the
\* exponents the scripts use, so the residue is obtained by squaring.
RECURSIVE Pow2Mod(_, _)
Pow2Mod(e, md) ==
  IF e = 0 THEN 1 % md
  ELSE LET h == Pow2Mod(e \div 2, md)
       IN  IF e % 2 = 1 THEN (((h * h) % md) * 2) % md ELSE (h * h) % md

HexChars == <<"0", "1", "2", "3", "4", "5", "6", "7",
              "8", "9", "a", "b", "c", "d", "e", "f">>
DecChars == <<"0", "1", "2", "3", "4", "5", "6", "7", "8", "9">>

\* hex(n)[2:] for n >= 0: the hexadecimal digits of n, most significant first
RECURSIVE HexDigits(_)
HexDigits(n) ==
  IF n < 16 THEN <<HexChars[n + 1]>>
  ELSE Append(HexDigits(n \div 16), HexChars[(n % 16) + 1])

\* str.zfill(width): pad with "0" on the left up to width, never truncate
RECURSIVE zfill(_, _)
zfill(s, width) == IF Len(s) >= width THEN s ELSE zfill(<<"0">> \o s, width)

\* the value a line of hexadecimal digits denotes
RECURSIVE HexValue(_)
HexValue(s) ==
  IF s = <<>> THEN 0
  ELSE 16 * HexValue(SubSeq(s, 1, Len(s) - 1))
       + ((CHOOSE d \in 1..16 : HexChars[d] = s[Len(s)]) - 1)

\* '{0:03d}'.format(n) for n >= 0
RECURSIVE DecDigits(_)
DecDigits(n) ==
  IF n < 10 THEN DecChars[n + 1]
  ELSE DecDigits(n \div 10) \o DecChars[(n % 10) + 1]

Format03d(n) ==
  IF n < 10 THEN "00" \o DecDigits(n)
  ELSE IF n < 100 THEN "0" \o DecDigits(n)
  ELSE DecDigits(n)

\* --------------------------------------------------- calculated parameters
LOOK_UP_WIDTH == WORD_LEN \div 2
LUT8_SIZE == Pow2(LOOK_UP_WIDTH)
LUT9_SIZE == Pow2(LOOK_UP_WIDTH + 1)
LUT_WIDTH == WORD_LEN * NONREDUNDANT_ELEMENTS

Lut8Name(n) == "precompute_lut8_" \o Format03d(n) \o ".dat"
Lut9Name(n) == "precompute_lut9_" \o Format03d(n) \o ".dat"

\* one written line: the address j it was computed for and its text
cur_lut_unreduced(t, j) == t * j
cur_lut(t, j) == (t * j) % M
LutLine(t, j) ==
  [addr |-> j, text |-> zfill(HexDigits(cur_lut(t, j)), LUT_WIDTH \div 4)]

\* for j in range(size): f.write(...); f.write('\n')
WriteTableFromOne(t, size) == [k \in 1..(size - 1) |-> LutLine(t, k)]
WriteTable(t, size) == [k \in 1..size |-> LutLine(t, k - 1)]

\* the exponent of the base multiplier of chunk n (lines 99-100)
BaseExponentOfChunkOnly(n) == n * WORD_LEN
BaseExponent(n) == (n + NONREDUNDANT_ELEMENTS) * WORD_LEN

NoFile == "none"

\* ------------------------------------------------ reduction-table claims
\* 2^e mod m by repeated doubling, the reference the claims are stated against
RECURSIVE PowerOfTwoResidue(_, _)
PowerOfTwoResidue(e, md) ==
  IF e = 0 THEN 1 % md ELSE (2 * PowerOfTwoResidue(e - 1, md)) % md

Chunks == 0..(LUT_NUM_ELEMENTS - 1)
HasFile(name) == name \in DOMAIN files
Closed(name) == HasFile(name) /\ f # name

\* the files a state is examined for: the one being written, and every file
\* of the run each time control is back at the for statement or the run is over
Examined ==
  IF pc \in {"for", "done"} THEN DOMAIN files
  ELSE IF f = NoFile THEN {} ELSE {f}

\* every line of file `name` is (base * addr) mod M, a multiple of entry 1
LinesAreMultiples(name, base) ==
  LET vals == [k \in DOMAIN files[name] |-> HexValue(files[name][k].text)]
  IN  \A k \in DOMAIN files[name] :
        LET r == files[name][k]
        IN  /\ vals[k] = (base * r.addr) % M
            /\ r.addr = 0 => vals[k] = 0
            /\ r.addr = 1 =>
                 /\ vals[k] = base
                 /\ \A k2 \in DOMAIN files[name] :
                      vals[k2] = (vals[k] * files[name][k2].addr) % M

\* C1: for every chunk n and address j the line written for address j of
\* lut8_n is (2^((n + nonRedundantElements) * wordLen) mod M * j) mod M and the
\* line of lut9_n is (2^((n + nonRedundantElements) * wordLen + 8) mod M * j)
\* mod M; entry 0 is 0, entry 1 is the base multiplier and entry j is
\* (entry 1 * j) mod M.
C1_LutEntries ==
  prog = "lut" =>
    \A n \in Chunks :
      /\ Lut8Name(n) \in Examined =>
           LinesAreMultiples(Lut8Name(n),
             PowerOfTwoResidue((n + NONREDUNDANT_ELEMENTS) * WORD_LEN, M))
      /\ Lut9Name(n) \in Examined =>
           LinesAreMultiples(Lut9Name(n),
             PowerOfTwoResidue((n + NONREDUNDANT_ELEMENTS) * WORD_LEN + 8, M))

\* the run has finished, the last chunk's tables hold a non-zero entry at
\* their top address
C1_Witness ==
  /\ prog = "lut" /\ pc = "done" /\ M = MaxM /\ WORD_LEN = MaxWordLen
  /\ HasFile(Lut8Name(LUT_NUM_ELEMENTS - 1))
  /\ \E k \in DOMAIN files[Lut8Name(LUT_NUM_ELEMENTS - 1)] :
       LET r == files[Lut8Name(LUT_NUM_ELEMENTS - 1)][k]
       IN  r.addr = LUT8_SIZE - 1 /\ HexValue(r.text) > 1
  /\ HasFile(Lut9Name(0))
  /\ \E k \in DOMAIN files[Lut9Name(0)] :
       LET r == files[Lut9Name(0)][k]
       IN  r.addr = LUT9_SIZE - 1 /\ HexValue(r.text) > 1

\* the addresses of a closed file: `passes` runs over 0..size-1 in order
AddressPasses(name, size, passes) ==
  /\ Len(files[name]) = passes * size
  /\ \A k \in DOMAIN files[name] : files[name][k].addr = (k - 1) % size

\* C3 (as stated): every finished file precompute_lut8_n holds exactly
\* 2^(wordLen/2) lines and precompute_lut9_n exactly 2^(wordLen/2+1) lines,
\* one per address, addresses strictly increasing from 0 to size-1.
C3_OneLinePerAddress ==
  prog = "lut" =>
    \A n \in Chunks :
      /\ Closed(Lut8Name(n)) => AddressPasses(Lut8Name(n), LUT8_SIZE, 1)
      /\ Closed(Lut9Name(n)) => AddressPasses(Lut9Name(n), LUT9_SIZE, 1)

\* C3 (amended): every finished file, the last chunk's included, holds the
\* table twice: 2 * 2^(wordLen div 2) lines for lut8 and 2 * 2^(wordLen div 2
\* + 1) for lut9, the addresses 0..size-1 in increasing order and then the
\* same addresses 0..size-1 again.
C3_TableWrittenTwice ==
  prog = "lut" =>
    \A n \in Chunks :
      /\ Closed(Lut8Name(n)) => AddressPasses(Lut8Name(n), LUT8_SIZE, 2)
      /\ Closed(Lut9Name(n)) => AddressPasses(Lut9Name(n), LUT9_SIZE, 2)

\* the run is over and both files of the last chunk are closed and full
C3_Witness ==
  /\ prog = "lut" /\ pc = "done" /\ WORD_LEN = MaxWordLen
  /\ Closed(Lut8Name(LUT_NUM_ELEMENTS - 1))
  /\ Closed(Lut9Name(LUT_NUM_ELEMENTS - 1))
  /\ Len(files[Lut8Name(LUT_NUM_ELEMENTS - 1)]) = 2 * LUT8_SIZE
  /\ Len(files[Lut9Name(LUT_NUM_ELEMENTS - 1)]) = 2 * LUT9_SIZE

\* C6: every entry written to a lut8 or lut9 file is in [0, M).
C6_EntriesBelowModulus ==
  prog = "lut" =>
    \A name \in Examined :
      \A k \in DOMAIN files[name] :
        /\ 0 <= HexValue(files[name][k].text)
        /\ HexValue(files[name][k].text) < M

\* a finished run whose tables hold the largest residue M - 1
C6_Witness ==
  /\ prog = "lut" /\ pc = "done" /\ M > 2
  /\ \E name \in DOMAIN files :
       \E k \in DOMAIN files[name] : HexValue(files[name][k].text) = M - 1

\* C7 (as stated): every line written to a lut8 or lut9 file has exactly
\* LUT_WIDTH/4 hexadecimal digits, LUT_WIDTH = wordLen * nonRedundantElements,
\* for every modulus and word geometry.  Stated here for the geometries with
\* an even wordLen and LUT_WIDTH a multiple of 4, where LUT_WIDTH/4 is a
\* whole number of digits.
C7_FixedWidthLines ==
  (prog = "lut" /\ WORD_LEN % 2 = 0 /\ LUT_WIDTH % 4 = 0) =>
    \A name \in DOMAIN files :
      \A k \in DOMAIN files[name] :
        Len(files[name][k].text) = LUT_WIDTH \div 4

\* a configuration the specification calls invalid
ConfigurationError ==
  \/ WORD_LEN % 2 # 0
  \/ M = 0
  \/ NONREDUNDANT_ELEMENTS % NUM_SEGMENTS # 0

\* C8 (as stated): with a configuration error (odd wordLen, zero modulus,
\* numSegments not dividing nonRedundantElements) no output file is ever
\* opened or written.
C8_ConfigErrorOpensNothing ==
  (prog = "lut" /\ ConfigurationError) => (opened = << >> /\ DOMAIN files = {})

\* ------------------------------------------------------------ the run
LutInit ==
  /\ M \in 0..MaxM
  /\ WORD_LEN \in 1..MaxWordLen
  /\ NONREDUNDANT_ELEMENTS \in 1..MaxNonRedundant
  /\ it = 0 /\ i = 0 /\ t_lut8 = 0 /\ t_lut9 = 0
  /\ f = NoFile /\ files = << >> /\ opened = << >>

\* line 92, 96-100: the for statement binds i to the next value of the range
\* and the base multipliers are computed; % M raises ZeroDivisionError for M = 0
ComputeBase ==
  /\ prog = "lut" /\ pc = "for"
  /\ IF it >= LUT_NUM_ELEMENTS
       THEN /\ pc' = "done"
            /\ UNCHANGED lutVars
       ELSE IF M = 0
         THEN /\ pc' = "ZeroDivisionError"
              /\ i' = it
              /\ UNCHANGED <<M, WORD_LEN, NONREDUNDANT_ELEMENTS, it, t_lut8, t_lut9, f, files, opened>>
         ELSE /\ i' = it
              /\ it' = it + 1
              /\ t_lut9' = Pow2Mod(BaseExponent(it) + LutOffset, M)
              /\ t_lut8' = Pow2Mod(BaseExponent(it), M)
              /\ pc' = "open8"
              /\ UNCHANGED <<M, WORD_LEN, NONREDUNDANT_ELEMENTS, f, files, opened>>
  /\ UNCHANGED <<bmVars, prog, termVars>>

\* open(name, 'w'): creates the file or truncates it
OpenFile(name) ==
  /\ f' = name
  /\ files' = (name :> << >>) @@ files
  /\ opened' = Append(opened, name)

\* lines 103-104
Open8 ==
  /\ prog = "lut" /\ pc = "open8"
  /\ OpenFile(Lut8Name(i))
  /\ pc' = "first8"
  /\ UNCHANGED <<bmVars, termVars, prog, M, WORD_LEN, NONREDUNDANT_ELEMENTS, it, i, t_lut8, t_lut9>>

\* lines 105-108
WriteFirst8 ==
  /\ prog = "lut" /\ pc = "first8"
  /\ files' = [files EXCEPT ![f] = @ \o WriteTable(t_lut8, LUT8_SIZE)]
  /\ pc' = "incr8"
  /\ UNCHANGED <<bmVars, termVars, prog, M, WORD_LEN, NONREDUNDANT_ELEMENTS, it, i, t_lut8, t_lut9, f, opened>>

\* line 111
Incr8 ==
  /\ prog = "lut" /\ pc = "incr8"
  /\ i' = i + 1
  /\ pc' = "second8"
  /\ UNCHANGED <<bmVars, termVars, prog, M, WORD_LEN, NONREDUNDANT_ELEMENTS, it, t_lut8, t_lut9, f, files, opened>>

\* lines 112-115
WriteSecond8 ==
  /\ prog = "lut" /\ pc = "second8"
  /\ files' = [files EXCEPT ![f] = @ \o WriteTable(t_lut8, LUT8_SIZE)]
  /\ pc' = "close8"
  /\ UNCHANGED <<bmVars, termVars, prog, M, WORD_LEN, NONREDUNDANT_ELEMENTS, it, i, t_lut8, t_lut9, f, opened>>

\* lines 116-118 without the decrement of line 118
Close8KeepsIncrement ==
  /\ prog = "lut" /\ pc = "close8"
  /\ f' = NoFile
  /\ pc' = "open9"
  /\ UNCHANGED <<bmVars, termVars, prog, M, WORD_LEN, NONREDUNDANT_ELEMENTS, it, i, t_lut8, t_lut9, files, opened>>

\* lines 116-118: f.close(); i = i-1
Close8 ==
  /\ prog = "lut" /\ pc = "close8"
  /\ f' = NoFile
  /\ i' = i - 1
  /\ pc' = "open9"
  /\ UNCHANGED <<bmVars, termVars, prog, M, WORD_LEN, NONREDUNDANT_ELEMENTS, it, t_lut8, t_lut9, files, opened>>

\* lines 121-122
Open9 ==
  /\ prog = "lut" /\ pc = "open9"
  /\ OpenFile(Lut9Name(i))
  /\ pc' = "first9"
  /\ UNCHANGED <<bmVars, termVars, prog, M, WORD_LEN, NONREDUNDANT_ELEMENTS, it, i, t_lut8, t_lut9>>

\* lines 124-127
WriteFirst9 ==
  /\ prog = "lut" /\ pc = "first9"
  /\ files' = [files EXCEPT ![f] = @ \o WriteTable(t_lut9, LUT9_SIZE)]
  /\ pc' = "incr9"
  /\ UNCHANGED <<bmVars, termVars, prog, M, WORD_LEN, NONREDUNDANT_ELEMENTS, it, i, t_lut8, t_lut9, f, opened>>

\* line 129
Incr9 ==
  /\ prog = "lut" /\ pc = "incr9"
  /\ i' = i + 1
  /\ pc' = "second9"
  /\ UNCHANGED <<bmVars, termVars, prog, M, WORD_LEN, NONREDUNDANT_ELEMENTS, it, t_lut8, t_lut9, f, files, opened>>

\* lines 130-133
WriteSecond9 ==
  /\ prog = "lut" /\ pc = "second9"
  /\ files' = [files EXCEPT ![f] = @ \o WriteTable(t_lut9, LUT9_SIZE)]
  /\ pc' = "close9"
  /\ UNCHANGED <<bmVars, termVars, prog, M, WORD_LEN, NONREDUNDANT_ELEMENTS, it, i, t_lut8, t_lut9, f, opened>>

\* line 135: f.close(); control returns to the for statement
Close9 ==
  /\ prog = "lut" /\ pc = "close9"
  /\ f' = NoFile
  /\ pc' = "for"
  /\ UNCHANGED <<bmVars, termVars, prog, M, WORD_LEN, NONREDUNDANT_ELEMENTS, it, i, t_lut8, t_lut9, files, opened>>

LutNext ==
  \/ ComputeBase \/ Open8 \/ WriteFirst8 \/ Incr8 \/ WriteSecond8 \/ Close8
  \/ Open9 \/ WriteFirst9 \/ Incr9 \/ WriteSecond9 \/ Close9

\* ------------------------------------------------- names and halves
\* the value of the for statement's range while the loop body runs
Chunk == it - 1

\* the loop body is running
InBody == prog = "lut" /\ pc \notin {"for", "done", "ZeroDivisionError"}

\* the name the k-th call of open() has in a run over the chunks in order
NameOfOpen(k) ==
  IF k % 2 = 1 THEN Lut8Name((k - 1) \div 2) ELSE Lut9Name((k - 1) \div 2)

\* between two chunks the names opened so far are those of the chunks done,
\* in order, lut8 before lut9, none of them twice; inside the body the last
\* name opened is that of its place; a run that reached its end opened
\* exactly the 2 * LUT_NUM_ELEMENTS names.  The base multipliers in use and
\* the open file are those of the chunk of the for statement.
NamesAndIndices ==
  prog = "lut" =>
    /\ Len(opened) <= 2 * LUT_NUM_ELEMENTS
    /\ pc \in {"for", "done"} =>
         /\ \A k \in DOMAIN opened : opened[k] = NameOfOpen(k)
         /\ \A k1, k2 \in DOMAIN opened : opened[k1] = opened[k2] => k1 = k2
         /\ Len(opened) = 2 * it
    /\ InBody =>
         /\ Len(opened) \in {2 * Chunk, 2 * Chunk + 1, 2 * Chunk + 2}
         /\ opened # << >> => opened[Len(opened)] = NameOfOpen(Len(opened))
    /\ pc = "done" =>
         /\ Len(opened) = 2 * LUT_NUM_ELEMENTS
         /\ {opened[k] : k \in DOMAIN opened}
              = {Lut8Name(n) : n \in Chunks} \cup {Lut9Name(n) : n \in Chunks}
    /\ InBody =>
         /\ Chunk \in Chunks
         /\ t_lut8 = PowerOfTwoResidue(BaseExponent(Chunk), M)
         /\ t_lut9 = PowerOfTwoResidue(BaseExponent(Chunk) + LutOffset, M)
    /\ pc \in {"first8", "incr8", "second8", "close8"} => f = Lut8Name(Chunk)
    /\ pc \in {"first9", "incr9", "second9", "close9"} => f = Lut9Name(Chunk)

\* a step that opens a file opens a name not opened before, that of the chunk
\* of the for statement; a step that changes i inside the body changes
\* neither the chunk, the base multipliers nor any file; the step that writes
\* the second half leaves the same file open, keeps the first half in place
\* and appends a copy of it, line for line.
HalvesStep ==
  prog = "lut" =>
    /\ opened' # opened =>
         /\ it' = it
         /\ opened' = Append(opened, f')
         /\ f' = IF pc = "open8" THEN Lut8Name(Chunk) ELSE Lut9Name(Chunk)
         /\ pc \in {"open8", "open9"}
         /\ \A k \in DOMAIN opened : opened[k] # f'
         /\ files'[f'] = << >>
    /\ (InBody /\ i' # i) =>
         /\ it' = it /\ t_lut8' = t_lut8 /\ t_lut9' = t_lut9
         /\ f' \in {f, NoFile} /\ files' = files /\ opened' = opened
    /\ (pc \in {"second8", "second9"} /\ pc' # pc) =>
         LET size == IF pc = "second8" THEN LUT8_SIZE ELSE LUT9_SIZE
         IN  /\ f' = f /\ opened' = opened
             /\ Len(files[f]) = size
             /\ Len(files'[f]) = 2 * size
             /\ \A k \in 1..size :
                  /\ files'[f][k] = files[f][k]
                  /\ files'[f][k + size] = files[f][k]
             /\ \A name \in DOMAIN files : name # f => files'[name] = files[name]

\* C11: over a run of the reduction-table generator each of the
\* 2 * LUT_NUM_ELEMENTS names precompute_lut8_{i:03d}.dat and
\* precompute_lut9_{i:03d}.dat, i in 0..LUT_NUM_ELEMENTS-1, is opened exactly
\* once and no other name is opened; the increments and the decrement of i in
\* the loop body never change the index used for a file name or for a base
\* multiplier; the second half of each file is appended to the same file
\* after the first half and repeats it line for line.
C11_NamesAndHalves == [] NamesAndIndices /\ [][HalvesStep]_vars

\* a run that reached its end: all 66 names opened, i left at
\* LUT_NUM_ELEMENTS by the last increment, and the last lut9 file holds a
\* second half whose top line is a residue above 1
C11_Witness ==
  /\ prog = "lut" /\ pc = "done"
  /\ Len(opened) = 2 * LUT_NUM_ELEMENTS
  /\ opened[2 * LUT_NUM_ELEMENTS] = "precompute_lut9_032.dat"
  /\ i = LUT_NUM_ELEMENTS
  /\ LUT9_SIZE >= 4
  /\ LET last == files[Lut9Name(LUT_NUM_ELEMENTS - 1)]
     IN  /\ Len(last) = 2 * LUT9_SIZE
         /\ last[2 * LUT9_SIZE] = last[LUT9_SIZE]
         /\ HexValue(last[2 * LUT9_SIZE].text) > 1

\* --------------------------------------------------- unbounded naturals
\* A big natural is the set of the positions of its set bits.
BigOfNat(n) == {p \in 0..30 : (n \div Pow2(p)) % 2 = 1}

\* a << k
ShiftLeft(a, k) == {p + k : p \in a}

SetMax(a) == CHOOSE p \in a : \A q \in a : q <= p

\* a + b: position p receives a carry when some lower position q holds a bit
\* of both and every position between q and p holds a bit of either
BigAdd(a, b) ==
  LET gen == a \cap b
      top == IF a \cup b = {} THEN 0 ELSE SetMax(a \cup b) + 1
      carry(p) == \E q \in gen :
                    q < p /\ \A r \in (q + 1)..(p - 1) : r \in a \/ r \in b
  IN  {p \in 0..top : ((p \in a) # (p \in b)) # carry(p)}

\* a < b
BigLess(a, b) == a # b /\ SetMax((a \ b) \cup (b \ a)) \in b

\* a - b for a >= b: position p lends when some lower position q holds a bit
\* of b alone and no position between q and p holds a bit of a alone
BigSub(a, b) ==
  LET gen == b \ a
      kill == a \ b
      top == IF a = {} THEN 0 ELSE SetMax(a)
      borrow(p) == \E q \in gen : q < p /\ \A r \in kill : ~(q < r /\ r < p)
  IN  {p \in 0..top : ((p \in a) # (p \in b)) # borrow(p)}

\* a % m for m > 0: the residues of the set bits of positions lo..hi, summed
RECURSIVE ResidueOfRange(_, _, _, _)
ResidueOfRange(a, lo, hi, md) ==
  IF lo > hi THEN 0
  ELSE IF lo = hi THEN (IF lo \in a THEN Pow2Mod(lo, md) ELSE 0)
  ELSE LET mid == (lo + hi) \div 2
       IN  (ResidueOfRange(a, lo, mid, md) + ResidueOfRange(a, mid + 1, hi, md)) % md

BigMod(a, md) == IF a = {} THEN 0 ELSE ResidueOfRange(a, 0, SetMax(a), md)

\* (a - b) % md as Python computes it: the result of % has the sign of md
DiffMod(a, b, md) ==
  IF BigLess(a, b) THEN (md - BigMod(BigSub(b, a), md)) % md
  ELSE BigMod(BigSub(a, b), md)

\* ------------------ vdf_metzgen_modterms.py and vdf_metzgen_modtest.py
\* program constants
RefLogNumSymbols == 5
RefLogRadix == 33
TermFirst == 3
TermLimit == 250
WindowWidth == 6
SampleX == 4

NumSymbols == 2 * Pow2(LOGNUMSYMBOLS)
MODBITWIDTH == LOGRADIX * Pow2(LOGNUMSYMBOLS)
signsymbol == {LOGRADIX + 1}

\* modterms line 42: ALLSIGNBITS = (ALLSIGNBITS << LOGRADIX) + signsymbol
TermsSignStep(acc) == BigAdd(ShiftLeft(acc, LOGRADIX), signsymbol)

\* modtest line 52: ALLSIGNBITS = (ALLSIGNBITS << LOGRADIX) + 2
TestSignStep(acc) == BigAdd(ShiftLeft(acc, LOGRADIX), BigOfNat(2))

\* modtest line 53: ALLSIGNBITS = (ALLSIGNBITS << LOGRADIX)
TestNoFinalShift(acc) == acc
TestFinalShift(acc) == ShiftLeft(acc, LOGRADIX)

\* lines 46-48: ((MODULUS << (MODBITWIDTH * 3)) - ALLSIGNBITS) % MODULUS
Adderterms0 ==
  DiffMod(ShiftLeft(BigOfNat(MODULUS), MODBITWIDTH * 3), ALLSIGNBITS, MODULUS)

\* modterms line 51, modtest line 64
adderterms1 == 0

\* line 61
IterOfNarrowWindow(n) ==
  (n - TermFirst) * (WindowWidth - 1) + (2 + LOGRADIX) * Pow2(LOGNUMSYMBOLS) - 2
IterOf(n) == (n - TermFirst) * WindowWidth + (2 + LOGRADIX) * Pow2(LOGNUMSYMBOLS) - 2

SYM(n, j) == (IterOf(n) + j) \div (2 + LOGRADIX)
BIT(n, j) == (IterOf(n) + j) % (2 + LOGRADIX)
InRepresentation(n, j) == SYM(n, j) < NumSymbols

\* line 67: (1 << ((SYM * LOGRADIX) + BIT)) % MODULUS
MODWrongModulus(n, j) == Pow2Mod((SYM(n, j) * LOGRADIX) + BIT(n, j), 2 * MODULUS)
MOD(n, j) == Pow2Mod((SYM(n, j) * LOGRADIX) + BIT(n, j), MODULUS)

\* lines 68-70: the selector bit of x, the sign bit flipped
x_iter(n, j) ==
  LET b == IF (IterOf(n) + j) \in x THEN 1 ELSE 0
  IN  IF BIT(n, j) = 1 + LOGRADIX THEN 1 - b ELSE b

\* modterms lines 62-73: the value of term after the loop over j
RECURSIVE TermsTerm(_, _)
TermsTerm(n, j) ==
  IF j >= WindowWidth THEN 0
  ELSE (IF InRepresentation(n, j) /\ x_iter(n, j) = 1 THEN MOD(n, j) ELSE 0)
       + TermsTerm(n, j + 1)

\* modtest lines 75-82: what the loop over j adds to adderterms
RECURSIVE TestTerm(_, _)
TestTerm(n, j) ==
  IF j >= WindowWidth THEN 0
  ELSE (IF InRepresentation(n, j) /\ BIT(n, j) = 1 + LOGRADIX THEN MOD(n, j) ELSE 0)
       + TestTerm(n, j + 1)

\* the sub-positions of term n that pass the test of line 66, in order
RECURSIVE Visited(_, _)
Visited(n, j) ==
  IF j >= WindowWidth THEN << >>
  ELSE (IF InRepresentation(n, j)
          THEN << <<n, j, IterOf(n) + j, SYM(n, j), BIT(n, j)>> >>
          ELSE << >>)
       \o Visited(n, j + 1)

XBits == 0..(NumSymbols * (LOGRADIX + 2) - 1)
Operands ==
  {{}, BigOfNat(SampleX)}
    \cup {{p \in XBits : p % k = r} : k \in 1..MaxStride, r \in 0..(MaxStride - 1)}

Geometries ==
  ((0..MaxLogNumSymbols) \X (1..MaxLogRadix)) \cup {<<RefLogNumSymbols, RefLogRadix>>}

TermsIdle ==
  /\ LOGNUMSYMBOLS = 0 /\ LOGRADIX = 0 /\ MODULUS = 0 /\ x = {}
  /\ ALLSIGNBITS = {} /\ adderterms0 = 0 /\ adderterms2 = {}
  /\ sumofadderterms = {} /\ ti = 0 /\ term = 0 /\ trace = << >> /\ printed = -1

TermsInit ==
  /\ \E g \in Geometries : LOGNUMSYMBOLS = g[1] /\ LOGRADIX = g[2]
  /\ MODULUS \in 1..MaxModulus
  /\ IF prog = "modterms" THEN x \in Operands ELSE x = {}
  /\ ALLSIGNBITS = {} /\ adderterms0 = 0 /\ adderterms2 = {}
  /\ sumofadderterms = {} /\ ti = 0 /\ term = 0 /\ trace = << >> /\ printed = -1

\* modterms lines 36-43: the loop over the 2 << LOGNUMSYMBOLS symbols, one
\* pass per step (ti is the loop's i)
TermsSignBits ==
  /\ prog = "modterms" /\ pc = "signbits"
  /\ IF ti < NumSymbols
       THEN /\ ALLSIGNBITS' = TermsSignStep(ALLSIGNBITS)
            /\ ti' = ti + 1
            /\ pc' = pc
       ELSE /\ pc' = "adderterms0"
            /\ UNCHANGED <<ALLSIGNBITS, ti>>
  /\ UNCHANGED <<bmVars, prog, lutVars, geomVars, adderterms0, adderterms2, sumofadderterms,
                 term, trace, printed>>

\* modtest lines 50-52
TestSignBits ==
  /\ prog = "modtest" /\ pc = "signbits" /\ ti < NumSymbols
  /\ ALLSIGNBITS' = TestSignStep(ALLSIGNBITS)
  /\ ti' = ti + 1
  /\ UNCHANGED <<bmVars, prog, pc, lutVars, geomVars, adderterms0, adderterms2, sumofadderterms,
                 term, trace, printed>>

\* modtest lines 53-54
TestShiftSignBits ==
  /\ prog = "modtest" /\ pc = "signbits" /\ ti >= NumSymbols
  /\ ALLSIGNBITS' = TestFinalShift(ALLSIGNBITS)
  /\ pc' = "adderterms0"
  /\ UNCHANGED <<bmVars, prog, lutVars, geomVars, adderterms0, adderterms2, sumofadderterms,
                 ti, term, trace, printed>>

\* modterms lines 46-53, modtest lines 59-66: adderterms0, adderterms1 = 0,
\* adderterms2 = 0
ComputeAdderterms0 ==
  /\ prog \in {"modterms", "modtest"} /\ pc = "adderterms0"
  /\ adderterms0' = Adderterms0
  /\ adderterms2' = {}
  /\ ti' = 1
  /\ pc' = "adderterms2"
  /\ UNCHANGED <<bmVars, prog, lutVars, geomVars, ALLSIGNBITS, sumofadderterms,
                 term, trace, printed>>

\* modterms lines 54-58, modtest lines 67-71: the loop over i in
\* range(1, 1 << LOGNUMSYMBOLS), one pass per step, then the sum of the three
\* structural terms
ComputeAdderterms2 ==
  /\ prog \in {"modterms", "modtest"} /\ pc = "adderterms2"
  /\ IF ti < Pow2(LOGNUMSYMBOLS)
       THEN /\ adderterms2' = TermsSignStep(adderterms2)
            /\ ti' = ti + 1
            /\ UNCHANGED <<pc, sumofadderterms>>
       ELSE /\ sumofadderterms' =
                 BigAdd(BigAdd(BigOfNat(adderterms0), BigOfNat(adderterms1)), adderterms2)
            /\ ti' = TermFirst
            /\ pc' = "terms"
            /\ UNCHANGED adderterms2
  /\ UNCHANGED <<bmVars, prog, lutVars, geomVars, ALLSIGNBITS, adderterms0, term, trace, printed>>

\* modterms lines 60-75: one pass of the loop over i
TermsLoop ==
  /\ prog = "modterms" /\ pc = "terms" /\ ti < TermLimit
  /\ term' = TermsTerm(ti, 0)
  /\ sumofadderterms' = BigAdd(sumofadderterms, BigOfNat(TermsTerm(ti, 0)))
  /\ trace' = trace \o Visited(ti, 0)
  /\ ti' = ti + 1
  /\ UNCHANGED <<bmVars, prog, pc, lutVars, geomVars, ALLSIGNBITS, adderterms0, adderterms2, printed>>

\* modtest lines 73-82: one pass of the loop over i
TestLoop ==
  /\ prog = "modtest" /\ pc = "terms" /\ ti < TermLimit
  /\ term' = TestTerm(ti, 0)
  /\ sumofadderterms' = BigAdd(sumofadderterms, BigOfNat(TestTerm(ti, 0)))
  /\ trace' = trace \o Visited(ti, 0)
  /\ ti' = ti + 1
  /\ UNCHANGED <<bmVars, prog, pc, lutVars, geomVars, ALLSIGNBITS, adderterms0, adderterms2, printed>>

\* modterms line 78, modtest line 86: the sum reduced modulo MODULUS
PrintSum ==
  /\ prog \in {"modterms", "modtest"} /\ pc = "terms" /\ ti >= TermLimit
  /\ printed' = BigMod(sumofadderterms, MODULUS)
  /\ pc' = "done"
  /\ UNCHANGED <<bmVars, prog, lutVars, geomVars, ALLSIGNBITS, adderterms0, adderterms2,
                 sumofadderterms, ti, term, trace>>

TermsNext ==
  \/ TermsSignBits \/ TestSignBits \/ TestShiftSignBits
  \/ ComputeAdderterms0 \/ ComputeAdderterms2
  \/ TermsLoop \/ TestLoop \/ PrintSum

\* ------------------------------------------ vdf_metzgen_modtest.py bigmodR
\* lines 111-112 and 115-116: if (v >= m): v = v - m
NotReduced(v, mod) == v
ReduceOnce(v, mod) == IF v >= mod THEN v - mod ELSE v

\* x >> 1
ShiftRightOne(a) == {p - 1 : p \in a \ {0}}

BigmodRArguments ==
  {BigOfNat(n) : n \in 0..MaxOperand} \cup {{e} : e \in 0..MaxExponent}

BigmodRIdle ==
  /\ m = 0 /\ xarg = {} /\ twopowerimodm = 0 /\ iterations = 0 /\ result = -1

\* lines 104-107: bigmodR(_x, m, _twopowerimodm) entered with _twopowerimodm = 1
\* as at its call (line 120)
BigmodRInit ==
  /\ xarg \in BigmodRArguments
  /\ m \in 1..MaxModulus
  /\ x = xarg /\ term = 0 /\ twopowerimodm = 1
  /\ iterations = 0 /\ result = -1
  /\ LOGNUMSYMBOLS = 0 /\ LOGRADIX = 0 /\ MODULUS = 0
  /\ ALLSIGNBITS = {} /\ adderterms0 = 0 /\ adderterms2 = {}
  /\ sumofadderterms = {} /\ ti = 0 /\ trace = << >> /\ printed = -1

\* lines 108-116: one pass of the while loop
BigmodRStep ==
  /\ prog = "bigmodR" /\ pc = "while" /\ x # {}
  /\ term' = IF 0 \in x THEN ReduceOnce(term + twopowerimodm, m) ELSE term
  /\ x' = ShiftRightOne(x)
  /\ twopowerimodm' = ReduceOnce(twopowerimodm * 2, m)
  /\ iterations' = iterations + 1
  /\ UNCHANGED <<prog, pc, lutVars, termOnlyVars, m, xarg, result>>

\* line 117
BigmodRReturn ==
  /\ prog = "bigmodR" /\ pc = "while" /\ x = {}
  /\ result' = term
  /\ pc' = "returned"
  /\ UNCHANGED <<prog, lutVars, termVars, m, xarg, twopowerimodm, iterations>>

BigmodRNext == BigmodRStep \/ BigmodRReturn

\* --------------------------------------------------- adder-term claims
InTermsScripts == prog \in {"modterms", "modtest"}
BitLength(a) == IF a = {} THEN 0 ELSE SetMax(a) + 1

\* C2 (as stated): the total of the adder terms the generator computes for an
\* operand x is congruent modulo M to x mod M, for every operand x.
C2_SumIsOperandResidue ==
  (prog = "modterms" /\ pc = "done") => printed = BigMod(x, MODULUS)

\* the sign bits of the symbols first..last, one per symbol, at bit
\* s * logRadix + logRadix + 1
SignBitsOf(first, last) == {s * LOGRADIX + LOGRADIX + 1 : s \in first..last}

\* C4 (as stated): adderterm[0], adderterm[1], adderterm[2] and every
\* bit-position term are residues in [0, M), for every operand and modulus.
C4_TermsAreResidues ==
  (prog = "modterms" /\ pc \in {"terms", "done"}) =>
    /\ 0 <= adderterms0 /\ adderterms0 < MODULUS
    /\ 0 <= adderterms1 /\ adderterms1 < MODULUS
    /\ BigLess(adderterms2, BigOfNat(MODULUS))
    /\ 0 <= term /\ term < MODULUS

\* C4 (amended): adderterm[0] is a residue in [0, M) and adderterm[1] is 0;
\* adderterm[2] is the unreduced constant with one bit per symbol
\* 0..2^logNumSymbols-2 at s*logRadix + logRadix + 1, whatever M is; each
\* bit-position term is an unreduced sum of at most six residues, so
\* 0 <= adderterm[i] <= 6 * (M - 1).
C4_TermBounds ==
  (prog = "modterms" /\ pc \in {"terms", "done"}) =>
    /\ 0 <= adderterms0 /\ adderterms0 < MODULUS
    /\ adderterms1 = 0
    /\ adderterms2 = SignBitsOf(0, Pow2(LOGNUMSYMBOLS) - 2)
    /\ 0 <= term /\ term <= 6 * (MODULUS - 1)

\* a bit-position term and adderterm[2] both at or above the modulus
C4_Witness ==
  /\ prog = "modterms" /\ pc = "terms" /\ ti > TermFirst
  /\ term >= MODULUS /\ MODULUS > 1
  /\ ~BigLess(adderterms2, BigOfNat(MODULUS))

\* C5: in both scripts ALLSIGNBITS has exactly one set bit per symbol slot s
\* in 0..2^(logNumSymbols+1)-1, at bit s*logRadix + logRadix + 1, and
\* adderterm[0] = (M*2^(3*modBitWidth) - ALLSIGNBITS) mod M: it lies in [0, M)
\* and adderterm[0] + ALLSIGNBITS is divisible by M.
C5_SignMaskAndTerm0 ==
  /\ (InTermsScripts /\ pc \in {"adderterms0", "adderterms2", "terms", "done"}) =>
       /\ ALLSIGNBITS = SignBitsOf(0, 2 * Pow2(LOGNUMSYMBOLS) - 1)
       /\ Cardinality(ALLSIGNBITS) = 2 * Pow2(LOGNUMSYMBOLS)
  /\ (InTermsScripts /\ pc \in {"adderterms2", "terms", "done"}) =>
       /\ 0 <= adderterms0 /\ adderterms0 < MODULUS
  /\ (InTermsScripts /\ (pc = "done" \/ (pc = "adderterms2" /\ ti = 1))) =>
       /\ adderterms0 = (MODULUS - BigMod(ALLSIGNBITS, MODULUS)) % MODULUS
       /\ BigMod(BigAdd(ALLSIGNBITS, BigOfNat(adderterms0)), MODULUS) = 0

\* modtest has finished with a non-zero adderterm[0] and a sign mask of more
\* than one bit
C5_Witness ==
  /\ prog = "modtest" /\ pc = "done"
  /\ adderterms0 > 0
  /\ Cardinality(ALLSIGNBITS) > 1

\* the first and last flattened bit position above the canonical operand
FirstPosition == (LOGRADIX + 2) * Pow2(LOGNUMSYMBOLS) - 2
LastPosition == (LOGRADIX + 2) * Pow2(LOGNUMSYMBOLS + 1) - 1

\* C10: the loop over i in [3,250) and j in 0..5 visits every flattened bit
\* position p from (logRadix+2)*2^logNumSymbols - 2 to
\* (logRadix+2)*2^(logNumSymbols+1) - 1 by exactly one pair (i, j), at
\* p = (i-3)*6 + (logRadix+2)*2^logNumSymbols - 2 + j with sym = p div
\* (logRadix+2) and bit = p mod (logRadix+2); positions with
\* sym >= 2^(logNumSymbols+1) are never taken and the terms past the top of
\* the representation are 0.
C10_PositionsVisitedOnce ==
  (InTermsScripts /\ pc \in {"terms", "done"}) =>
    /\ \A k \in DOMAIN trace :
         LET n == trace[k][1]
             j == trace[k][2]
             p == trace[k][3]
         IN  /\ n \in 3..249 /\ j \in 0..5
             /\ p = (n - 3) * 6 + (LOGRADIX + 2) * Pow2(LOGNUMSYMBOLS) - 2 + j
             /\ trace[k][4] = p \div (LOGRADIX + 2)
             /\ trace[k][5] = p % (LOGRADIX + 2)
             /\ trace[k][4] < 2 * Pow2(LOGNUMSYMBOLS)
             /\ p = FirstPosition + k - 1
    /\ Len(trace) <= LastPosition - FirstPosition + 1
    /\ pc = "done" => Len(trace) = LastPosition - FirstPosition + 1
    /\ (ti > 3 /\ (ti - 4) * 6 + FirstPosition > LastPosition) => term = 0

\* the reference geometry has been run to the end: all 1122 positions were
\* visited and the last terms were past the top
C10_Witness ==
  /\ prog = "modterms" /\ pc = "done"
  /\ LOGNUMSYMBOLS = RefLogNumSymbols /\ LOGRADIX = RefLogRadix
  /\ Len(trace) = 1122
  /\ trace[1122][3] = 2239 /\ trace[1][3] = 1118
  /\ term = 0 /\ ti = 250

\* C9 (as stated): bigmodR(x, m, 1) takes one loop pass per bit of x and
\* returns x mod m for every x >= 0 and m >= 1, and after each pass
\* 0 <= term < m and 0 <= twopowerimodm < m.
C9_AccumulatorsReduced ==
  prog = "bigmodR" =>
    /\ iterations >= 1 =>
         /\ 0 <= term /\ term < m
         /\ 0 <= twopowerimodm /\ twopowerimodm < m
    /\ pc = "returned" =>
         /\ result = BigMod(xarg, m)
         /\ iterations = BitLength(xarg)

\* C9 (amended): bigmodR(x, m, 1) takes one loop pass per bit of x and returns
\* x mod m for every x >= 0 and m >= 1; after each pass 0 <= term < m, and
\* 0 <= twopowerimodm < m when m >= 2, while for m = 1 twopowerimodm stays 1
\* (equal to m, not below it).
C9_BigmodR ==
  prog = "bigmodR" =>
    /\ 0 <= term /\ term < m
    /\ 0 <= twopowerimodm
    /\ m >= 2 => twopowerimodm < m
    /\ m = 1 => twopowerimodm = 1
    /\ x = {p - iterations : p \in {q \in xarg : q >= iterations}}
    /\ iterations <= BitLength(xarg)
    /\ pc = "returned" =>
         /\ result = BigMod(xarg, m)
         /\ iterations = BitLength(xarg)

\* a call that returned a non-zero residue after several passes
C9_Witness ==
  /\ prog = "bigmodR" /\ pc = "returned"
  /\ m >= 3 /\ result > 0
  /\ xarg = {MaxExponent} /\ iterations = MaxExponent + 1

LutIdle ==
  /\ M = 0 /\ WORD_LEN = 0 /\ NONREDUNDANT_ELEMENTS = 0
  /\ it = 0 /\ i = 0 /\ t_lut8 = 0 /\ t_lut9 = 0
  /\ f = NoFile /\ files = << >> /\ opened = << >>

Init ==
  /\ prog \in {"lut", "modterms", "modtest", "bigmodR"}
  /\ CASE prog = "lut" -> pc = "for" /\ LutInit /\ TermsIdle /\ BigmodRIdle
       [] prog \in {"modterms", "modtest"} ->
            pc = "signbits" /\ LutIdle /\ TermsInit /\ BigmodRIdle
       [] prog = "bigmodR" -> pc = "while" /\ LutIdle /\ BigmodRInit

Next == LutNext \/ TermsNext \/ BigmodRNext

Spec == Init /\ [][Next]_vars
====
